---- MODULE Spec2Model ----
(***************************************************************************)
(* Terminal Portfolio Optimizer (src/src/optimizer.py, src/src/main.py).   *)
(*                                                                         *)
(* Numbers are exact integers:                                             *)
(*   - expected returns and the risk-free rate are in percent;             *)
(*   - covariances are in units of 0.01;                                   *)
(*   - the portfolios the quadratic solver chooses among are the points    *)
(*     <<k, Grid - k>> / Grid of the two-asset simplex (the single point   *)
(*     <<Grid>> / Grid for a one-column table), so a portfolio             *)
(*     return is kept multiplied by Grid and a variance by Grid^2;         *)
(*   - a volatility is kept as its square (the variance): sqrt is          *)
(*     increasing, so every comparison of volatilities is the comparison   *)
(*     of the variances;                                                   *)
(*   - the weights that go through cleaning are in units of 1e-6.          *)
(* The PyPortfolioOpt calls are modelled by their contract; whether a      *)
(* solve converges is an input (env) of the call that makes it.            *)
(***************************************************************************)
EXTENDS Integers, Sequences, FiniteSets, TLC

\* ---------------------------------------------------------------- bounds
\* the solver chooses among the portfolios <<k, Grid - k>> / Grid
Grid == 10
\* num_points of a direct call is 1..MaxPoints
MaxPoints == 3

\* ------------------------------------------------------------- exceptions
\* The two classes that share the name OptimizationError in optimizer.py:
\* the one imported from pypfopt.exceptions and the module's own class,
\* whose definition rebinds the name.
PypfoptOptimizationError == "pypfopt.exceptions.OptimizationError"
OptimizationError == "src.optimizer.OptimizationError"
ValueError == "ValueError"
NoException == "none"

\* ------------------------------------------------------------ price tables
Tickers == <<"FPT", "VNM">>
Assets == 1..2

\* A price table is kept as its columns, its row count and the estimates the
\* estimator derives from it (mu in percent, S in units of 0.01).
Markets ==
  { [mu |-> <<12, 8>>,   S |-> << <<4, 1>>, <<1, 2>> >>],
    [mu |-> <<8, 12>>,   S |-> << <<2, 1>>, <<1, 4>> >>],
    [mu |-> <<2, 1>>,    S |-> << <<9, 0>>, <<0, 1>> >>],
    [mu |-> <<-5, -6>>,  S |-> << <<3, 1>>, <<1, 3>> >>],
    [mu |-> <<-4, 20>>,  S |-> << <<1, 0>>, <<0, 9>> >>] }
RowCounts == {10, 29, 30}
PriceTables ==
  { [columns |-> Tickers, rows |-> r, mu |-> m.mu, S |-> m.S] :
      r \in RowCounts, m \in Markets }
Rates == {3, -20}

mean_historical_return(prices) == prices.mu
sample_cov(prices) == prices.S

\* ------------------------------------------------------------- portfolios
Portfolios == { <<k, Grid - k>> : k \in 0..Grid }

\* the long-only portfolios of EfficientFrontier(mu, S): the one-asset
\* table has the single portfolio that holds its asset
PortfoliosOf(mu) == IF Len(mu) = 1 THEN { <<Grid>> } ELSE Portfolios

\* w . mu, times Grid
portfolio_return(w, mu) ==
  IF Len(w) = 1 THEN w[1] * mu[1] ELSE w[1] * mu[1] + w[2] * mu[2]

\* w' S w, times Grid^2
portfolio_variance(w, S) ==
  IF Len(w) = 1 THEN w[1] * w[1] * S[1][1]
  ELSE w[1] * w[1] * S[1][1] + w[1] * w[2] * (S[1][2] + S[2][1])
       + w[2] * w[2] * S[2][2]

\* EfficientFrontier.portfolio_performance(): (return, volatility)
portfolio_performance(w, mu, S) ==
  [ret |-> portfolio_return(w, mu), vol |-> portfolio_variance(w, S)]

Min(a, b) == IF a <= b THEN a ELSE b
Max(a, b) == IF a >= b THEN a ELSE b

\* e1 / sqrt(v1) >= e2 / sqrt(v2), for variances v1, v2 > 0
SharpeGE(e1, v1, e2, v2) ==
  IF e1 >= 0 /\ e2 >= 0 THEN e1 * e1 * v2 >= e2 * e2 * v1
  ELSE IF e1 >= 0 THEN TRUE
  ELSE IF e2 >= 0 THEN FALSE
  ELSE e1 * e1 * v2 <= e2 * e2 * v1

\* excess return of a portfolio over the risk-free rate, times Grid
Excess(w, mu, rf) == portfolio_return(w, mu) - Grid * rf

\* Sharpe ratio of portfolio a >= Sharpe ratio of portfolio b
SharpeOfGE(a, b, mu, S, rf) ==
  SharpeGE(Excess(a, mu, rf), portfolio_variance(a, S),
           Excess(b, mu, rf), portfolio_variance(b, S))

\* Every solve returns the optimum; among equal optima the one with the
\* least weight on the first asset (the solver is deterministic).

\* EfficientFrontier.min_volatility(): least variance on the simplex
min_volatility(mu, S) ==
  CHOOSE w \in PortfoliosOf(mu) : \A v \in PortfoliosOf(mu) :
    \/ portfolio_variance(w, S) < portfolio_variance(v, S)
    \/ portfolio_variance(w, S) = portfolio_variance(v, S) /\ w[1] <= v[1]

\* EfficientFrontier.max_sharpe() raises ValueError unless some asset's
\* expected return exceeds the risk-free rate
max_sharpe_defined(mu, rf) == \E a \in DOMAIN mu : mu[a] > rf

\* max_sharpe called without its risk_free_rate argument: the optimum for
\* the library's default rate of 2 percent
max_sharpe_default_rate(mu, S, rf) ==
  CHOOSE w \in PortfoliosOf(mu) : \A v \in PortfoliosOf(mu) :
    /\ SharpeOfGE(w, v, mu, S, 2)
    /\ SharpeOfGE(v, w, mu, S, 2) => w[1] <= v[1]

\* EfficientFrontier.max_sharpe(): greatest Sharpe ratio on the simplex
max_sharpe(mu, S, rf) ==
  CHOOSE w \in PortfoliosOf(mu) : \A v \in PortfoliosOf(mu) :
    /\ SharpeOfGE(w, v, mu, S, rf)
    /\ SharpeOfGE(v, w, mu, S, rf) => w[1] <= v[1]

\* least and greatest return on the simplex (mu.min(), mu.max()), times Grid
mu_min(mu) == Grid * Min(mu[1], mu[Len(mu)])
mu_max(mu) == Grid * Max(mu[1], mu[Len(mu)])

\* EfficientFrontier.efficient_return(target): least variance among the
\* portfolios whose return is at least the target.  The target is kept
\* multiplied by Grid * den.
efficient_return(mu, S, target, den) ==
  CHOOSE w \in PortfoliosOf(mu) :
    /\ den * portfolio_return(w, mu) >= target
    /\ \A v \in PortfoliosOf(mu) : den * portfolio_return(v, mu) >= target =>
         \/ portfolio_variance(w, S) < portfolio_variance(v, S)
         \/ portfolio_variance(w, S) = portfolio_variance(v, S) /\ w[1] <= v[1]

\* --------------------------------------------- calculate_efficient_frontier
\* What the solver does in one call of calculate_efficient_frontier:
\*   min_volatility, max_sharpe  whether that solve converges (the two
\*                   max_sharpe solves are the same problem: one answer);
\*   sweep_fail      the sweep index whose solve does not converge (0: none);
\*   reject_negative whether this PyPortfolioOpt release rejects a negative
\*                   target return with ValueError.
FrontierEnvs(num_points) ==
  [min_volatility : BOOLEAN, max_sharpe : BOOLEAN,
   sweep_fail : 0..num_points, reject_negative : BOOLEAN]

\* np.linspace(min_ret, max_ret * 1.2, num_points): the targets are kept
\* multiplied by Grid * linspace_den(num_points)
linspace_den(num_points) == 5 * Max(num_points - 1, 1)

\* np.linspace with its first two arguments exchanged
target_returns_reversed(min_ret, max_ret, num_points) ==
  [i \in 1..num_points |->
     6 * Max(num_points - 1, 1) * max_ret - (i - 1) * (6 * max_ret - 5 * min_ret)]

target_returns(min_ret, max_ret, num_points) ==
  [i \in 1..num_points |->
     linspace_den(num_points) * min_ret + (i - 1) * (6 * max_ret - 5 * min_ret)]

\* "except (OptimizationError, ValueError)": the name OptimizationError is
\* looked up when the handler runs, and is then the module's own class
sweep_except == {OptimizationError, ValueError}

\* the body of the sweep's try for target number i: the exception raised
\* (NoException if none) and the point appended
sweep_try(mu, S, target, den, i, env) ==
  IF env.reject_negative /\ target < 0
    THEN [exc |-> ValueError, ret |-> 0, vol |-> 0]
  ELSE IF target > den * mu_max(mu)
    THEN [exc |-> ValueError, ret |-> 0, vol |-> 0]
  ELSE IF env.sweep_fail = i
    THEN [exc |-> PypfoptOptimizationError, ret |-> 0, vol |-> 0]
  ELSE LET perf == portfolio_performance(efficient_return(mu, S, target, den), mu, S)
       IN  [exc |-> NoException, ret |-> perf.ret, vol |-> perf.vol]

\* The for loop over target_returns, given the outcome tries[i] of the try
\* body for each target i: the exception that escapes the loop (NoException
\* if none), the two lists, and the indices of the targets that were
\* discarded.  The loop ends at the first target whose exception the
\* handler does not catch.
sweep_outcome(tries) ==
  LET n == Len(tries)
      escapes == { i \in 1..n : tries[i].exc \notin sweep_except \cup {NoException} }
      last == IF escapes = {} THEN n
              ELSE (CHOOSE i \in escapes : \A j \in escapes : i <= j) - 1
      points == SelectSeq(SubSeq(tries, 1, last), LAMBDA t : t.exc = NoException)
  IN  [exc |-> IF escapes = {} THEN NoException ELSE tries[last + 1].exc,
       returns_range |-> [j \in 1..Len(points) |-> points[j].ret],
       volatilities_range |-> [j \in 1..Len(points) |-> points[j].vol],
       discarded |-> { i \in 1..last : tries[i].exc \in sweep_except }]

sweep(mu, S, targets, den, env) ==
  sweep_outcome([i \in 1..Len(targets) |-> sweep_try(mu, S, targets[i], den, i, env)])

\* the exception of a max_sharpe call (NoException if it returns)
max_sharpe_exc(mu, rf, converges) ==
  IF ~max_sharpe_defined(mu, rf) THEN ValueError
  ELSE IF ~converges THEN PypfoptOptimizationError
  ELSE NoException

NoPoint == [ret |-> 0, vol |-> 0]

\* "Get the min and max possible returns": min_ret and max_ret, each with
\* the value its bare "except:" puts in place of a solve that raised
sweep_bounds(mu, S, risk_free_rate, env) ==
  [min_ret |-> IF env.min_volatility
                 THEN portfolio_performance(min_volatility(mu, S), mu, S).ret
                 ELSE mu_min(mu),
   max_ret |-> IF max_sharpe_exc(mu, risk_free_rate, env.max_sharpe) = NoException
                 THEN portfolio_performance(max_sharpe(mu, S, risk_free_rate), mu, S).ret
                 ELSE mu_max(mu)]

\* "Calculate max Sharpe portfolio" and the return statement, after a sweep
\* that ended as loop: status "returned" with the three values returned, or
\* "raised" with the exception that escapes and the place ("sweep" or
\* "final") it escapes from.  local holds the call's local values.
frontier_result(loop, ms_exc, marker, local) ==
  IF loop.exc # NoException
    THEN [status |-> "raised", exc |-> loop.exc, at |-> "sweep",
          returns_range |-> <<>>, volatilities_range |-> <<>>,
          max_sharpe_point |-> NoPoint,
          local |-> [local EXCEPT !.discarded = loop.discarded]]
  ELSE IF ms_exc # NoException
    THEN [status |-> "raised", exc |-> ms_exc, at |-> "final",
          returns_range |-> <<>>, volatilities_range |-> <<>>,
          max_sharpe_point |-> NoPoint,
          local |-> [local EXCEPT !.discarded = loop.discarded]]
  ELSE [status |-> "returned", exc |-> NoException, at |-> "none",
        returns_range |-> loop.returns_range,
        volatilities_range |-> loop.volatilities_range,
        max_sharpe_point |-> marker,
        local |-> [local EXCEPT !.discarded = loop.discarded]]

\* the sweep and what follows it, for the bounds computed
frontier_from_bounds(mu, S, risk_free_rate, num_points, env, bounds) ==
  frontier_result(
    sweep(mu, S, target_returns(bounds.min_ret, bounds.max_ret, num_points),
          linspace_den(num_points), env),
    max_sharpe_exc(mu, risk_free_rate, env.max_sharpe),
    IF max_sharpe_exc(mu, risk_free_rate, env.max_sharpe) = NoException
      THEN portfolio_performance(max_sharpe(mu, S, risk_free_rate), mu, S)
      ELSE NoPoint,
    [target_returns |-> target_returns(bounds.min_ret, bounds.max_ret, num_points),
     den |-> linspace_den(num_points), min_ret |-> bounds.min_ret,
     max_ret |-> bounds.max_ret, discarded |-> {}])

calculate_efficient_frontier(prices, risk_free_rate, num_points, env) ==
  frontier_from_bounds(mean_historical_return(prices), sample_cov(prices),
                       risk_free_rate, num_points, env,
                       sweep_bounds(mean_historical_return(prices), sample_cov(prices),
                                    risk_free_rate, env))

\* ------------------------------------------------ get_max_sharpe_allocation
\* Weights are integers in units of 1e-6.
Scale == 1000 * 1000

\* The weights a max_sharpe solve can return for a two-column table: any
\* point of the simplex is the optimum of some table; -1 is a solver's
\* rounding error below zero.
FirstWeights == {-1, 0, 40, 99, 100, 102, 105, 115, 250000, 500000, 999960}
SolverWeights == { <<x, Scale - x>> : x \in FirstWeights }

Abs(x) == IF x < 0 THEN -x ELSE x

\* np.round(x, 5): to the nearest multiple of 1e-5, halves to the even one
round5(x) ==
  LET a == Abs(x)
      q == a \div 10
      r == a % 10
      n == IF r < 5 THEN q
           ELSE IF r > 5 THEN q + 1
           ELSE IF q % 2 = 0 THEN q ELSE q + 1
  IN  IF x < 0 THEN -(10 * n) ELSE 10 * n

\* EfficientFrontier.clean_weights(cutoff=1e-4, rounding=5), keyed by the
\* tickers of the table's columns
clean_weights(w, columns) ==
  [t \in { columns[a] : a \in DOMAIN columns } |->
     LET x == w[CHOOSE a \in DOMAIN columns : columns[a] = t]
     IN  round5(IF Abs(x) < 100 THEN 0 ELSE x)]

\* {k: v for k, v in cleaned_weights.items() if v > 0.0001}
filter_weights(cleaned_weights) ==
  [t \in { k \in DOMAIN cleaned_weights : cleaned_weights[k] > 100 } |->
     cleaned_weights[t]]

\* a handler that names only the library's exception class
allocation_except_narrow(exc) ==
  IF exc = PypfoptOptimizationError THEN OptimizationError ELSE exc

\* "except Exception as e: raise OptimizationError(...)": what the handler
\* of get_max_sharpe_allocation raises for an exception of its try body
allocation_except(exc) == OptimizationError

AllocationSteps == {"estimate", "max_sharpe", "clean_weights", "portfolio_performance"}
LibraryExceptions == {ValueError, PypfoptOptimizationError, "KeyError"}

\* What the library does in one call of get_max_sharpe_allocation: the
\* step that raises (if any) with its exception, and the solver's weights.
AllocationEnvs ==
  [fail_step : {"none"}, fail_exc : {NoException}, weights : SolverWeights]
  \cup [fail_step : AllocationSteps, fail_exc : LibraryExceptions,
         weights : {CHOOSE w \in SolverWeights : TRUE}]

\* the exception raised inside the try body (NoException if none)
allocation_try(prices, risk_free_rate, env) ==
  IF env.fail_step = "estimate" THEN env.fail_exc
  ELSE IF ~max_sharpe_defined(mean_historical_return(prices), risk_free_rate)
    THEN ValueError
  ELSE IF env.fail_step # "none" THEN env.fail_exc
  ELSE NoException

NoWeights == [t \in {} |-> 0]

\* The outcome of get_max_sharpe_allocation: the dictionary returned, or
\* the exception raised.  optimised is the solver's weight vector.
get_max_sharpe_allocation(prices, risk_free_rate, env) ==
  IF allocation_try(prices, risk_free_rate, env) # NoException
    THEN [status |-> "raised",
          exc |-> allocation_except(allocation_try(prices, risk_free_rate, env)),
          weights |-> NoWeights, optimised |-> env.weights]
  ELSE [status |-> "returned", exc |-> NoException,
        weights |-> filter_weights(clean_weights(env.weights, prices.columns)),
        optimised |-> env.weights]

\* ------------------------------------------------ get_portfolio_performance
\* the weights dictionaries a caller passes: what an allocation returns
WeightDicts == { filter_weights(clean_weights(w, Tickers)) : w \in SolverWeights }

\* a column absent from the dictionary taken as fully held: weights.get(col, 1)
weights_array_default_one(weights, columns) ==
  [a \in DOMAIN columns |->
     IF columns[a] \in DOMAIN weights THEN weights[columns[a]] ELSE Scale]

\* [weights.get(col, 0) for col in prices.columns]
weights_array(weights, columns) ==
  [a \in DOMAIN columns |->
     IF columns[a] \in DOMAIN weights THEN weights[columns[a]] ELSE 0]

\* np.dot(w, mu): percent, times Scale
dot_mu(w, mu) ==
  IF Len(w) = 1 THEN w[1] * mu[1] ELSE w[1] * mu[1] + w[2] * mu[2]

\* np.dot(w, np.dot(S, w)) for weights in units of 1e-6, exactly: the
\* digits <<hi, mid, lo>> of the value hi * 10^6 + mid * 10^3 + lo
\* (mid, lo < 1000), computed on the halves w = 1000 * a + b
quad_form(w, S) ==
  LET a == [i \in DOMAIN w |-> w[i] \div 1000]
      b == [i \in DOMAIN w |-> w[i] % 1000]
      sum(x, y) == IF Len(w) = 1 THEN x[1] * y[1] * S[1][1]
                   ELSE x[1] * y[1] * S[1][1] + x[1] * y[2] * S[1][2]
                        + x[2] * y[1] * S[2][1] + x[2] * y[2] * S[2][2]
      c0 == sum(b, b)
      c1 == sum(a, b) + sum(b, a) + (c0 \div 1000)
  IN  <<sum(a, a) + (c1 \div 1000), c1 % 1000, c0 % 1000>>

\* The triple returned: portfolio_return, the square of portfolio_vol, and
\* the Sharpe ratio as its numerator over portfolio_vol.
get_portfolio_performance(prices, weights, risk_free_rate) ==
  [status |-> "returned", exc |-> NoException,
   portfolio_return |-> dot_mu(weights_array(weights, prices.columns), mean_historical_return(prices)),
   portfolio_vol_sq |-> quad_form(weights_array(weights, prices.columns), sample_cov(prices)),
   sharpe_num |-> dot_mu(weights_array(weights, prices.columns), mean_historical_return(prices))
                  - Scale * risk_free_rate]

\* ------------------------------------------------------ fetch_vn_stock_data
DataFetchError == "src.data_fetcher.DataFetchError"
Exception == "Exception"

\* datetime.strptime(s, "%Y-%m-%d") succeeds: %m and %d also match a month
\* and a day written with one digit
IsDate(s) == s \in {"2024-01-01", "2024-12-31", "2024-1-5"}

\* "ticker and len(ticker) >= 3" fails
InvalidTicker(t) == t \in {"", "FP"}

\* ticker.strip().upper()
strip_upper(t) ==
  CASE t = " fp " -> "FP" [] t = " vnm" -> "VNM" [] t = "  " -> "" [] OTHER -> t

\* validate_tickers: (valid, invalid), each ticker stripped and upper-cased
validate_tickers(tickers) ==
  LET stripped == [i \in 1..Len(tickers) |-> strip_upper(tickers[i])]
  IN  [valid |-> SelectSeq(stripped, LAMBDA t : ~InvalidTicker(t)),
       invalid |-> SelectSeq(stripped, InvalidTicker)]

\* the rows of the combined frame before dropna
RawRowCounts == {1, 29, 30}

\* What the data source does in one call: the tickers whose quote history
\* comes back usable (fetched), the rows of the combined frame (rows), how
\* many of them hold a missing value (missing), and the estimates of the
\* two-column table (market).
FetchEnvs ==
  { e \in [fetched : SUBSET { Tickers[a] : a \in Assets }, rows : RawRowCounts,
           missing : 0..1, market : Markets] :
      /\ e.fetched = {} => e.rows = 30 /\ e.missing = 0
      /\ (e.fetched = {} \/ e.rows - e.missing < 30) =>
           e.market = CHOOSE m \in Markets : TRUE }

\* the table of the columns fetched, with the rows left after dropna
price_table(columns, rows, market) ==
  LET at(j) == CHOOSE a \in Assets : Tickers[a] = columns[j]
  IN  [columns |-> columns, rows |-> rows,
       mu |-> [j \in 1..Len(columns) |-> market.mu[at(j)]],
       S |-> [j \in 1..Len(columns) |->
                [k \in 1..Len(columns) |-> market.S[at(j)][at(k)]]]]

\* the tables fetch_vn_stock_data can return
FetchedTables ==
  { price_table(columns, 30, m) :
      columns \in { Tickers, <<Tickers[1]>>, <<Tickers[2]>> }, m \in Markets }

NoTable == [columns |-> <<>>, rows |-> 0, mu |-> <<>>, S |-> <<>>]

\* fetch_vn_stock_data after the quote-history loop, for the columns of
\* price_data: the table returned, or DataFetchError raised
fetch_combine(valid_tickers, price_data, env) ==
  LET raise(why) == [status |-> "raised", exc |-> DataFetchError, why |-> why,
                     quotes |-> Len(valid_tickers), missing |-> 0, prices |-> NoTable]
  IN  IF price_data = <<>> THEN raise("all tickers failed")
      ELSE IF env.rows - env.missing = 0 THEN raise("no rows after cleaning")
      ELSE IF env.rows - env.missing < 30 THEN raise("insufficient data points")
      ELSE [status |-> "returned", exc |-> NoException, why |-> "none",
            quotes |-> Len(valid_tickers), missing |-> 0,
            prices |-> price_table(price_data, env.rows - env.missing, env.market)]

\* The outcome of fetch_vn_stock_data: the table returned, or DataFetchError
\* raised with its cause; quotes is the number of quote-history requests
\* made, missing the number of rows of the table that hold a missing value.
fetch_vn_stock_data(tickers, start_date, end_date, env) ==
  LET raise(why) == [status |-> "raised", exc |-> DataFetchError, why |-> why,
                     quotes |-> 0, missing |-> 0, prices |-> NoTable]
  IN  IF ~IsDate(start_date) \/ ~IsDate(end_date) THEN raise("invalid date format")
      ELSE IF validate_tickers(tickers).invalid # <<>> THEN raise("invalid tickers")
      ELSE IF validate_tickers(tickers).valid = <<>> THEN raise("no valid tickers")
      ELSE fetch_combine(validate_tickers(tickers).valid,
                         SelectSeq(validate_tickers(tickers).valid,
                                   LAMBDA t : t \in env.fetched),
                         env)

\* -------------------------------------------------- InputScreen.on_optimize
\* "num_points: int = 100"
DefaultNumPoints == 100
\* the values the two rate inputs fall back to when left empty, in hundredths
DefaultRiskFreeRate == 3
DefaultRiskAversion == 100

\* float(s), in hundredths, for the texts float() accepts
FloatValue ==
  [s \in {"-0.2", "0", "-2"} |->
     CASE s = "-0.2" -> -20 [] s = "0" -> 0 [] s = "-2" -> -200]
float_raises(s) == s \notin DOMAIN FloatValue

\* The text of the tickers input is kept as its pieces between commas,
\* each already stripped: <<"">> is the empty text, <<"", "">> is ",".
TickerInputs == { <<"">>, <<"", "">>, <<"FPT", "VNM">>, <<"FP", "VNM">> }
DateInputs == {"", "2024-01-01", "01/01/2024"}
RiskFreeInputs == {"", "abc", "-0.2"}
RiskAversionInputs == {"", "abc", "0", "-2"}

Inputs ==
  [tickers_input : TickerInputs, start_date : DateInputs, end_date : DateInputs,
   risk_free_input : RiskFreeInputs, risk_aversion_input : RiskAversionInputs]

\* [t.strip().upper() for t in tickers_input.split(",") if t.strip()]
parse_tickers(tickers_input) == SelectSeq(tickers_input, LAMBDA t : t # "")

\* the message of the first input validation that fails ("" if none does)
validate_inputs(in) ==
  IF in.tickers_input = <<"">>
    THEN "Error: Please enter at least one ticker"
  ELSE IF in.start_date = "" \/ in.end_date = ""
    THEN "Error: Please enter both start and end dates"
  ELSE IF in.risk_free_input # "" /\ float_raises(in.risk_free_input)
    THEN "Error: Invalid risk-free rate. Use decimal format (e.g., 0.03)"
  ELSE IF in.risk_aversion_input # "" /\ float_raises(in.risk_aversion_input)
    THEN "Error: Invalid risk aversion. Use decimal format (e.g., 1.0)"
  ELSE IF parse_tickers(in.tickers_input) = <<>>
    THEN "Error: No valid tickers found"
  ELSE ""

risk_free_rate_of(in) ==
  IF in.risk_free_input = "" THEN DefaultRiskFreeRate ELSE FloatValue[in.risk_free_input]
risk_aversion_of(in) ==
  IF in.risk_aversion_input = "" THEN DefaultRiskAversion
  ELSE FloatValue[in.risk_aversion_input]

\* the calls of the try block, in order
TrySteps ==
  << "fetch_vn_stock_data", "mean_historical_return", "sample_cov",
     "calculate_efficient_frontier",
     "get_max_sharpe_allocation", "get_portfolio_performance(max_sharpe)",
     "get_min_volatility_allocation", "get_portfolio_performance(min_vol)",
     "get_max_utility_allocation", "get_portfolio_performance(max_utility)",
     "generate_random_portfolios", "create_enhanced_portfolio_chart",
     "display_charts" >>

\* get_min_volatility_allocation, get_max_utility_allocation and
\* generate_random_portfolios are imported by main.py from the optimizer;
\* the allocations fail with OptimizationError, and max-utility rejects a
\* risk aversion that is not positive.
SpecModelledSteps ==
  {"get_min_volatility_allocation", "get_max_utility_allocation",
   "generate_random_portfolios"}

InvalidParameterError == "InvalidParameterError"
get_max_utility_allocation_exc(risk_aversion) ==
  IF risk_aversion <= 0 THEN InvalidParameterError ELSE NoException

\* What can go wrong in one run of the try block: at most one fault, the
\* step it hits and what that step then does.
\*   frontier faults: a solve of calculate_efficient_frontier not converging;
\*   any other step: the exception it raises.
Faults ==
  {[step |-> "none", what |-> "none"]}
  \cup [step : {"calculate_efficient_frontier"},
        what : {"min_volatility", "max_sharpe", "sweep", "reject_negative"}]
  \cup [step : {"get_max_sharpe_allocation"}, what : AllocationSteps]
  \cup [step : {"get_min_volatility_allocation", "get_max_utility_allocation"},
        what : {OptimizationError}]
  \cup [step : { TrySteps[i] : i \in 1..Len(TrySteps) }
                 \ {"fetch_vn_stock_data", "calculate_efficient_frontier",
                    "get_max_sharpe_allocation", "get_min_volatility_allocation",
                    "get_max_utility_allocation"},
        what : {Exception}]

OptimizeEnvs == [fetch : FetchEnvs, fault : Faults]

frontier_env(fault) ==
  LET hit(w) == fault.step = "calculate_efficient_frontier" /\ fault.what = w
  IN  [min_volatility |-> ~hit("min_volatility"), max_sharpe |-> ~hit("max_sharpe"),
       sweep_fail |-> IF hit("sweep") THEN 1 ELSE 0,
       reject_negative |-> hit("reject_negative")]

\* (the exception of the allocation does not depend on the solver's weights)
allocation_env(fault, prices) ==
  [fail_step |-> IF fault.step = "get_max_sharpe_allocation" THEN fault.what ELSE "none",
   fail_exc |-> PypfoptOptimizationError,
   weights |-> IF Len(prices.columns) = 1 THEN <<Scale>>
               ELSE CHOOSE w \in SolverWeights : TRUE]

\* the exception of calculate_efficient_frontier(prices, risk_free_rate)
\* (NoException if it returns) for each table, rate and solver behaviour of
\* a run of the try block
frontier_exc ==
  [prices \in FetchedTables, rf \in Rates, env \in { frontier_env(f) : f \in Faults } |->
     calculate_efficient_frontier(prices, rf, DefaultNumPoints, env).exc]

\* the exception the step raises (NoException if it returns), for the
\* outcome fetched of fetch_vn_stock_data
step_exc(step, in, env, fetched) ==
  CASE step = "fetch_vn_stock_data" -> fetched.exc
    [] step = "calculate_efficient_frontier" ->
         frontier_exc[fetched.prices, risk_free_rate_of(in), frontier_env(env.fault)]
    [] step = "get_max_sharpe_allocation" ->
         get_max_sharpe_allocation(fetched.prices, risk_free_rate_of(in),
                                   allocation_env(env.fault, fetched.prices)).exc
    [] step = "get_max_utility_allocation" /\ env.fault.step # step ->
         get_max_utility_allocation_exc(risk_aversion_of(in))
    [] OTHER -> IF env.fault.step = step THEN env.fault.what ELSE NoException

\* the "except" clauses of on_optimize: the prefix of the error message
handler_prefix(exc) ==
  IF exc = DataFetchError THEN "Data Error:"
  ELSE IF exc = OptimizationError THEN "Optimization Error:"
  ELSE "Unexpected Error:"

\* a call of step made before the rest of the block, which ended as rest
after_step(step, rest) == [rest EXCEPT !.trace = <<step>> \o @]

\* the try block from step i on: the calls made and the exception caught;
\* try_step is step i having raised exc (NoException: it returned)
RECURSIVE run_try(_, _, _, _), try_step(_, _, _, _, _)
\* a try block that goes on with the next step after a step raised
try_step_continue(i, in, env, fetched, exc) ==
  after_step(TrySteps[i], run_try(i + 1, in, env, fetched))

run_try(i, in, env, fetched) ==
  IF i > Len(TrySteps) THEN [trace |-> <<>>, exc |-> NoException]
  ELSE try_step(i, in, env, fetched, step_exc(TrySteps[i], in, env, fetched))

try_step(i, in, env, fetched, exc) ==
  IF exc # NoException THEN [trace |-> <<TrySteps[i]>>, exc |-> exc]
  ELSE after_step(TrySteps[i], run_try(i + 1, in, env, fetched))

\* The calls that estimate mu and S from the price table: on_optimize
\* itself (mean_historical_return, then sample_cov), and each optimiser
\* function of optimizer.py in its first two statements.
EstimatingSteps ==
  {"mean_historical_return", "calculate_efficient_frontier",
   "get_max_sharpe_allocation", "get_portfolio_performance(max_sharpe)",
   "get_portfolio_performance(min_vol)", "get_portfolio_performance(max_utility)"}

\* the number of times mean_historical_return(prices) was called in a run
\* that made the calls of trace
estimations(trace) ==
  Cardinality({ i \in 1..Len(trace) : trace[i] \in EstimatingSteps })

\* the messages left on the screen by a try block that ended as run
after_try(run) ==
  IF run.exc # NoException
    THEN [error_message |-> handler_prefix(run.exc),
          success_message |-> "Processing... Please wait.",
          trace |-> run.trace, exc |-> run.exc,
          estimations |-> estimations(run.trace)]
  ELSE [error_message |-> "",
        success_message |->
          "Visualization closed. You can run another optimization or exit.",
        trace |-> run.trace, exc |-> NoException,
        estimations |-> estimations(run.trace)]

\* The whole handler: the two messages it leaves on the screen, the calls
\* it made in order, and the exception its try block caught.
on_optimize(in, env) ==
  IF validate_inputs(in) # ""
    THEN [error_message |-> validate_inputs(in), success_message |-> "",
          trace |-> <<>>, exc |-> NoException, estimations |-> 0]
  ELSE after_try(run_try(1, in, env,
                         fetch_vn_stock_data(parse_tickers(in.tickers_input),
                                             in.start_date, in.end_date, env.fetch)))

\* ------------------------------------------------------------------- state
VARIABLES
  call,             \* the entry point called last, with its arguments
  result,           \* what that call returned or raised
  error_message,    \* the text of the #error-message widget
  success_message   \* the text of the #success-message widget

vars == <<call, result, error_message, success_message>>

NotCalled == [fn |-> "none"]
NoResult == [status |-> "none"]

Init ==
  /\ call = NotCalled
  /\ result = NoResult
  /\ error_message = ""
  /\ success_message = ""

\* One entry point runs at a time: a call starts when no call is
\* outstanding, and the caller takes its outcome before the next one.
Call_calculate_efficient_frontier ==
  /\ call = NotCalled
  /\ \E prices \in PriceTables, risk_free_rate \in Rates, num_points \in 1..MaxPoints :
     \E env \in FrontierEnvs(num_points) :
       /\ call' = [fn |-> "calculate_efficient_frontier", prices |-> prices,
                   risk_free_rate |-> risk_free_rate, num_points |-> num_points,
                   env |-> env]
       /\ result' = calculate_efficient_frontier(prices, risk_free_rate, num_points, env)
  /\ UNCHANGED <<error_message, success_message>>

Call_get_max_sharpe_allocation ==
  /\ call = NotCalled
  /\ \E prices \in PriceTables, risk_free_rate \in Rates, env \in AllocationEnvs :
       /\ call' = [fn |-> "get_max_sharpe_allocation", prices |-> prices,
                   risk_free_rate |-> risk_free_rate, env |-> env]
       /\ result' = get_max_sharpe_allocation(prices, risk_free_rate, env)
  /\ UNCHANGED <<error_message, success_message>>

Call_get_portfolio_performance ==
  /\ call = NotCalled
  /\ \E prices \in PriceTables, risk_free_rate \in Rates, weights \in WeightDicts :
       /\ call' = [fn |-> "get_portfolio_performance", prices |-> prices,
                   risk_free_rate |-> risk_free_rate, weights |-> weights]
       /\ result' = get_portfolio_performance(prices, weights, risk_free_rate)
  /\ UNCHANGED <<error_message, success_message>>

\* the ticker lists and dates of a direct call of fetch_vn_stock_data
FetchTickerLists ==
  { <<>>, <<"  ">>, <<"FPT">>, <<"FPT", "VNM">>, <<" vnm", "FPT">>, <<" fp ", "VNM">> }
FetchDates == {"2024-01-01", "2024-1-5", "01/01/2024"}

Call_fetch_vn_stock_data ==
  /\ call = NotCalled
  /\ \E tickers \in FetchTickerLists, start_date \in FetchDates, end_date \in FetchDates,
        env \in FetchEnvs :
       /\ call' = [fn |-> "fetch_vn_stock_data", tickers |-> tickers,
                   start_date |-> start_date, end_date |-> end_date, env |-> env]
       /\ result' = fetch_vn_stock_data(tickers, start_date, end_date, env)
  /\ UNCHANGED <<error_message, success_message>>

\* the environments that can tell two runs on these inputs apart: one
\* when the run ends before the first quote-history request
EnvsFor(in) ==
  IF /\ validate_inputs(in) = ""
     /\ IsDate(in.start_date) /\ IsDate(in.end_date)
     /\ validate_tickers(parse_tickers(in.tickers_input)).invalid = <<>>
    THEN OptimizeEnvs
  ELSE { CHOOSE e \in OptimizeEnvs : TRUE }

\* the Optimize button is pressed
Press_optimize ==
  /\ call = NotCalled
  /\ \E in \in Inputs : \E env \in EnvsFor(in) :
       \E out \in {on_optimize(in, env)} :
           /\ call' = [fn |-> "on_optimize", inputs |-> in, env |-> env]
           /\ result' = [status |-> "returned", exc |-> out.exc, trace |-> out.trace,
                         estimations |-> out.estimations]
           /\ error_message' = out.error_message
           /\ success_message' = out.success_message

\* the caller takes the outcome of the call
Return ==
  /\ call # NotCalled
  /\ call' = NotCalled
  /\ result' = NoResult
  /\ UNCHANGED <<error_message, success_message>>

Next ==
  \/ Return
  \/ Call_calculate_efficient_frontier
  \/ Call_get_max_sharpe_allocation
  \/ Call_get_portfolio_performance
  \/ Call_fetch_vn_stock_data
  \/ Press_optimize

Spec == Init /\ [][Next]_vars

\* ================================================================== claims
IsFrontierCall == call.fn = "calculate_efficient_frontier"
IsAllocationCall == call.fn = "get_max_sharpe_allocation"
IsPerformanceCall == call.fn = "get_portfolio_performance"

IsOptimizeCall == call.fn = "on_optimize"
IsFetchCall == call.fn = "fetch_vn_stock_data"

\* the PriceTable invariant's row floor
ValidTable(prices) == prices.rows >= 30

\* C1: every weight vector get_max_sharpe_allocation returns for a valid
\* price table has only non-negative entries, and its entries sum to 1
\* within 1e-6.
C1_WeightsOnSimplex ==
  (IsAllocationCall /\ ValidTable(call.prices) /\ result.status = "returned") =>
    LET w == weights_array(result.weights, call.prices.columns)
    IN  /\ \A a \in Assets : w[a] >= 0
        /\ Abs(w[1] + w[2] - Scale) <= 1

\* C2: a failing solve of one sweep target is discarded and the sweep goes
\* on: no exception escapes calculate_efficient_frontier from its sweep, and
\* the target whose solve failed is among the discarded ones (stated for
\* the calls whose bound solves converge, on a valid table).
C2_SweepFailureSkipped ==
  (IsFrontierCall /\ ValidTable(call.prices)
     /\ call.env.min_volatility /\ call.env.max_sharpe) =>
    /\ ~(result.status = "raised" /\ result.at = "sweep")
    /\ \A i \in 1..call.num_points :
         sweep_try(mean_historical_return(call.prices), sample_cov(call.prices),
                   result.local.target_returns[i], result.local.den, i, call.env).exc
           # NoException
         => i \in result.local.discarded

\* C3: when the min-volatility solve or the max-Sharpe solve of the sweep
\* bounds does not converge, calculate_efficient_frontier raises: it never
\* returns a frontier built on a substitute bound.
C3_BoundFailureSurfaced ==
  (IsFrontierCall /\ ValidTable(call.prices)
     /\ (~call.env.min_volatility \/ ~call.env.max_sharpe)) =>
    result.status = "raised"

\* C4: in every result of calculate_efficient_frontier the Sharpe ratio of
\* the max-Sharpe marker is at least the Sharpe ratio of every point of the
\* returned frontier, at the call's risk-free rate.
C4_MarkerSharpeDominates ==
  (IsFrontierCall /\ result.status = "returned") =>
    \A j \in 1..Len(result.returns_range) :
      SharpeGE(result.max_sharpe_point.ret - Grid * call.risk_free_rate,
               result.max_sharpe_point.vol,
               result.returns_range[j] - Grid * call.risk_free_rate,
               result.volatilities_range[j])

\* a frontier of two or more points, one of them with a Sharpe ratio
\* strictly below the marker's
C4_Witness ==
  /\ IsFrontierCall /\ result.status = "returned"
  /\ Len(result.returns_range) >= 2
  /\ \E j \in 1..Len(result.returns_range) :
       ~SharpeGE(result.returns_range[j] - Grid * call.risk_free_rate,
                 result.volatilities_range[j],
                 result.max_sharpe_point.ret - Grid * call.risk_free_rate,
                 result.max_sharpe_point.vol)

\* C5: the returns array calculate_efficient_frontier returns is
\* non-decreasing in the sweep index, and so is the volatilities array.
C5_FrontierMonotone ==
  (IsFrontierCall /\ result.status = "returned") =>
    \A j \in 1..(Len(result.returns_range) - 1) :
      /\ result.returns_range[j] <= result.returns_range[j + 1]
      /\ result.volatilities_range[j] <= result.volatilities_range[j + 1]

\* a returned frontier of two or more points whose max-Sharpe return is
\* negative, with 1.2 times it below the first target (a descending sweep)
C5_Witness ==
  /\ IsFrontierCall /\ result.status = "returned"
  /\ Len(result.returns_range) >= 2
  /\ result.local.max_ret < 0
  /\ 6 * result.local.max_ret < 5 * result.local.min_ret

\* C6: in every result of calculate_efficient_frontier the sweep used
\* num_points equally spaced targets from the min-volatility portfolio's
\* return to 1.2 times the max-Sharpe portfolio's return, and the marker is
\* that max-Sharpe portfolio's (return, volatility).
C6_SweepBoundsAndMarker ==
  (IsFrontierCall /\ ValidTable(call.prices) /\ result.status = "returned") =>
    LET mu == mean_historical_return(call.prices)
        S == sample_cov(call.prices)
        n == call.num_points
        t == result.local.target_returns
        best == portfolio_performance(max_sharpe(mu, S, call.risk_free_rate), mu, S)
    IN  /\ Len(t) = n
        /\ t[1] = result.local.den * portfolio_performance(min_volatility(mu, S), mu, S).ret
        /\ n >= 2 => 5 * t[n] = 6 * result.local.den * best.ret
        /\ \A i \in 1..(n - 2) : t[i + 1] - t[i] = t[i + 2] - t[i + 1]
        /\ result.max_sharpe_point = best

\* C7: an asset is absent from the allocation get_max_sharpe_allocation
\* returns exactly when its optimised weight is below 0.0001, and a
\* surviving weight is the optimised weight to five decimals, not rescaled.
C7_CleaningRemovesExactlySmall ==
  (IsAllocationCall /\ ValidTable(call.prices) /\ result.status = "returned") =>
    \A a \in Assets :
      /\ Tickers[a] \notin DOMAIN result.weights <=> result.optimised[a] < 100
      /\ Tickers[a] \in DOMAIN result.weights =>
           result.weights[Tickers[a]] = round5(result.optimised[a])

\* C8: get_max_sharpe_allocation returns a weight dictionary or raises the
\* module's OptimizationError, with no weights, whatever step failed.
C8_ReturnsOrRaisesOptimizationError ==
  IsAllocationCall =>
    \/ result.status = "returned" /\ result.exc = NoException
    \/ /\ result.status = "raised" /\ result.exc = OptimizationError
       /\ result.weights = NoWeights

\* max_sharpe raised ValueError (no asset beats the risk-free rate) with no
\* other failure, and the call raised
C8_Witness ==
  /\ IsAllocationCall
  /\ call.env.fail_step = "none"
  /\ ~max_sharpe_defined(mean_historical_return(call.prices), call.risk_free_rate)
  /\ result.status = "raised"

\* C9: when the risk-aversion input of on_optimize parses to a number that
\* is not positive, the handler makes no call (no data fetch, no
\* optimisation) and reports an error.
C9_NonPositiveRiskAversionRejected ==
  (/\ IsOptimizeCall
   /\ call.inputs.risk_aversion_input \in DOMAIN FloatValue
   /\ FloatValue[call.inputs.risk_aversion_input] <= 0
   /\ call.inputs.tickers_input = <<"FPT", "VNM">>
   /\ IsDate(call.inputs.start_date) /\ IsDate(call.inputs.end_date)
   /\ call.inputs.risk_free_input = "")
  => (result.trace = <<>> /\ error_message # "")

\* C10: a price table of fewer than 30 rows given to an optimiser entry
\* point makes it raise; it yields no weights, frontier or metrics (for
\* the frontier, stated for the calls in which every solve converges).
C10_ShortTableRejected ==
  /\ (IsFrontierCall /\ ~ValidTable(call.prices)
        /\ call.env.min_volatility /\ call.env.max_sharpe /\ call.env.sweep_fail = 0)
       => result.status = "raised"
  /\ (IsAllocationCall /\ ~ValidTable(call.prices)) => result.status = "raised"
  /\ (IsPerformanceCall /\ ~ValidTable(call.prices)) => result.status = "raised"

\* C11: every table fetch_vn_stock_data returns has at least 30 rows, at
\* least 2 columns and no row with a missing value, whatever tickers are
\* requested and whichever of their fetches fail; a call that returns no
\* table raises DataFetchError.
C11_FetchedTableInvariant ==
  IsFetchCall =>
    \/ /\ result.status = "returned"
       /\ result.prices.rows >= 30
       /\ Len(result.prices.columns) >= 2
       /\ result.missing = 0
    \/ result.status = "raised" /\ result.exc = DataFetchError

\* C12: in one run of on_optimize that completes (every step of the try
\* block returned) on a table of both tickers, mu and S are estimated from
\* the price table exactly once.
C12_EstimatedOncePerSession ==
  (/\ IsOptimizeCall /\ result.exc = NoException /\ result.trace # <<>>
   /\ call.env.fetch.fetched = { Tickers[a] : a \in Assets })
  => result.estimations = 1

\* C13: the metrics get_portfolio_performance returns are those of exactly
\* the weights dictionary it is given, neither renormalised nor completed:
\* every displayed weight counts, a column absent from the dictionary counts
\* as 0, return = w . mu, volatility^2 = w' S w and
\* Sharpe * volatility = return - risk_free_rate.  (The digits of
\* volatility^2 are also compared with w' S w modulo 997.)
C13_MetricsOverDisplayedWeights ==
  IsPerformanceCall =>
    LET mu == mean_historical_return(call.prices)
        columns == call.prices.columns
        held(a) == IF columns[a] \in DOMAIN call.weights
                     THEN call.weights[columns[a]] ELSE 0
        w == [a \in DOMAIN columns |-> held(a)]
        S == sample_cov(call.prices)
        r(a) == held(a) % 997
        v == result.portfolio_vol_sq
    IN  /\ DOMAIN call.weights \subseteq { columns[a] : a \in DOMAIN columns }
        /\ result.status = "returned"
        /\ result.portfolio_return = held(1) * mu[1] + held(2) * mu[2]
        /\ result.portfolio_vol_sq = quad_form(w, S)
        /\ v[2] \in 0..999 /\ v[3] \in 0..999
        /\ ((v[1] % 997) * ((1000 * 1000) % 997) + v[2] * (1000 % 997) + v[3]) % 997
             = (r(1) * r(1) * S[1][1] + r(1) * r(2) * (S[1][2] + S[2][1])
                + r(2) * r(2) * S[2][2]) % 997
        /\ result.sharpe_num = result.portfolio_return - Scale * call.risk_free_rate

\* metrics computed for an allocation from which cleaning removed an asset
\* and whose weights no longer sum to 1
C13_Witness ==
  /\ IsPerformanceCall /\ result.status = "returned"
  /\ DOMAIN call.weights = {Tickers[2]}
  /\ call.weights[Tickers[2]] < Scale
  /\ result.portfolio_return = call.weights[Tickers[2]] * call.prices.mu[2]

\* a date written YYYY-MM-DD: four digits, two digits, two digits
InDateFormat(s) == s \in {"2024-01-01", "2024-12-31"}

\* C14: fetch_vn_stock_data validates before it fetches: with a date that is
\* not in YYYY-MM-DD format, a ticker that is empty or shorter than 3
\* characters after stripping, or an empty ticker list, it raises
\* DataFetchError having made no quote-history request; a bad date is
\* reported whatever the tickers.
C14_ValidatesBeforeFetching ==
  LET bad_date == ~InDateFormat(call.start_date) \/ ~InDateFormat(call.end_date)
      bad_ticker == \E i \in 1..Len(call.tickers) : call.tickers[i] \in {"  ", " fp "}
  IN  (IsFetchCall /\ (bad_date \/ bad_ticker \/ call.tickers = <<>>)) =>
        /\ result.status = "raised" /\ result.exc = DataFetchError
        /\ result.quotes = 0
        /\ bad_date => result.why = "invalid date format"
        /\ (~bad_date /\ bad_ticker) => result.why = "invalid tickers"

\* C15: in on_optimize the calls of the try block are made in their order,
\* each at most once; no call is made when an input validation fails, none
\* after a step that raised, and display_charts is called only as the last
\* of all the steps, each of the earlier ones having returned.
C15_DisplayOnlyAfterAllSteps ==
  IsOptimizeCall =>
    LET t == result.trace
        in == call.inputs
        index(step) == CHOOSE k \in 1..Len(TrySteps) : TrySteps[k] = step
        raising == call.env.fault.step # "none"
                   /\ call.env.fault.step # "calculate_efficient_frontier"
    IN  /\ Len(t) <= Len(TrySteps)
        /\ \A i \in 1..Len(t) : t[i] = TrySteps[i]
        /\ ( \/ in.tickers_input \in { <<"">>, <<"", "">> }
             \/ in.start_date = "" \/ in.end_date = ""
             \/ in.risk_free_input = "abc" \/ in.risk_aversion_input = "abc" )
           => t = <<>>
        /\ call.env.fetch.fetched = {} => Len(t) <= 1
        /\ raising => Len(t) <= index(call.env.fault.step)
        /\ (\E i \in 1..Len(t) : t[i] = "display_charts") =>
             /\ Len(t) = Len(TrySteps)
             /\ error_message = "" \/ call.env.fault.step = "display_charts"

\* a press whose steps all returned, display_charts being the last call
C15_Witness ==
  /\ IsOptimizeCall /\ result.exc = NoException
  /\ result.trace = TrySteps

\* the optimisation steps of the try block
OptimisationSteps ==
  {"calculate_efficient_frontier", "get_max_sharpe_allocation",
   "get_min_volatility_allocation", "get_max_utility_allocation"}

\* C16: when a step of on_optimize raises, the error message starts with
\* "Optimization Error:" if the step is the frontier computation or an
\* allocation, with "Data Error:" only if it is the data fetch, and with
\* "Unexpected Error:" only if it is neither (stated for the presses with
\* the default risk aversion whose fetch returns both columns).
C16_ErrorPrefixMatchesStep ==
  (/\ IsOptimizeCall /\ result.exc # NoException
   /\ call.inputs.risk_aversion_input = ""
   /\ call.env.fetch.fetched = { Tickers[a] : a \in Assets })
  => LET failed == result.trace[Len(result.trace)]
     IN  /\ failed \in OptimisationSteps => error_message = "Optimization Error:"
         /\ error_message = "Data Error:" => failed = "fetch_vn_stock_data"
         /\ error_message = "Unexpected Error:" =>
              failed \notin OptimisationSteps \cup {"fetch_vn_stock_data"}

\* C17: after any sequence of presses of Optimize, the error message and
\* the success message are never both non-empty.
C17_MessagesExclusive ==
  ~(error_message # "" /\ success_message # "")

====
